---- MODULE Spec2Model ----
(***************************************************************************)
(* sonic_manager.core.netbox_client.NetBoxClient: the task telemetry       *)
(* channel (push_task_output / finish_task_output / fetch_task_output)     *)
(* over one Redis stream per task id, and the inventory resolver           *)
(* (get_nb_device_query_list_sonic, get_device_loopbacks,                  *)
(* get_device_oob_ip, get_device_vlans) over one device of the inventory.  *)
(*                                                                         *)
(* Time is a discrete clock `now`.  The local computation of a method      *)
(* takes no time; time passes only while no fetch is between two blocking  *)
(* reads, and a blocked XREAD returns as soon as an entry after its cursor *)
(* exists or its block time has elapsed.  Only fetch reads the clock, so   *)
(* the clock is advanced only while some fetch waits in XREAD.             *)
(*                                                                         *)
(* One run has at most one failing log operation and at most one entry     *)
(* from a writer other than push/finish.                                   *)
(*                                                                         *)
(* Text is a sequence of one-character strings, so that str() and int()    *)
(* are computed digit by digit.                                            *)
(***************************************************************************)
EXTENDS Integers, Sequences, FiniteSets, TLC

\* ------------------------------------------------------------- bounds
MaxLines == 2      \* push calls in a run with one task id
MaxLinesPair == 1  \* push calls in a run with two task ids, both together
MaxTime == 4       \* the highest reading of the clock

Timeout == 2       \* the `timeout` argument of every fetch call (seconds)
MaxIfaces == 2     \* interfaces of a device

Tasks == {"A", "B"}
Lines == {<<"a">>, <<"b">>}
RCs == {2, -13}

\* ------------------------------------------------------------- text
Digits == <<"0", "1", "2", "3", "4", "5", "6", "7", "8", "9">>
Whitespace == {" ", "\n"}

DigitChar(d) == Digits[d + 1]

DigitVal(c) == CHOOSE d \in 0..9 : Digits[d + 1] = c

IsDigit(c) == \E d \in 0..9 : Digits[d + 1] = c

RECURSIVE NatToStr(_)
NatToStr(n) ==
    IF n < 10 THEN <<DigitChar(n)>>
    ELSE NatToStr(n \div 10) \o <<DigitChar(n % 10)>>

\* str(rc) for a Python int
IntToStr(n) == IF n < 0 THEN <<"-">> \o NatToStr(-n) ELSE NatToStr(n)

RECURSIVE StripLeft(_)
StripLeft(s) ==
    IF s # <<>> /\ Head(s) \in Whitespace THEN StripLeft(Tail(s)) ELSE s

RECURSIVE StripRight(_)
StripRight(s) ==
    IF s # <<>> /\ s[Len(s)] \in Whitespace
    THEN StripRight(SubSeq(s, 1, Len(s) - 1)) ELSE s

RECURSIVE DigitsVal(_, _)
DigitsVal(s, acc) ==
    IF s = <<>> THEN acc ELSE DigitsVal(Tail(s), acc * 10 + DigitVal(Head(s)))

\* int(message_content): [ok |-> FALSE] stands for ValueError
ParseInt(s) ==
    LET t == StripRight(StripLeft(s))
        signed == t # <<>> /\ Head(t) \in {"-", "+"}
        body == IF signed THEN Tail(t) ELSE t
    IN  IF body # <<>> /\ \A i \in 1..Len(body) : IsDigit(body[i])
        THEN [ok |-> TRUE,
              val |-> IF signed /\ Head(t) = "-"
                      THEN -DigitsVal(body, 0) ELSE DigitsVal(body, 0)]
        ELSE [ok |-> FALSE, val |-> 0]

QuitText == <<"q", "u", "i", "t">>

\* ------------------------------------------------------------- JSON text
\* json.loads over the part of JSON a filter expression is made of:
\* strings without escapes, integers, true / false / null, arrays and
\* objects, with blanks between the tokens.  A Python value is tagged with
\* its kind; a dict is a mapping from its keys, the last of two equal keys
\* of an object winning.  [ok |-> FALSE] stands for JSONDecodeError.
PyStr(cs) == [k |-> "str", v |-> cs]
PyInt(n) == [k |-> "num", v |-> n]
PyBool(b) == [k |-> "bool", v |-> b]
PyNone == [k |-> "none", v |-> <<>>]
PyList(vs) == [k |-> "list", v |-> vs]
PyDict(ps) ==
    [k |-> "dict",
     v |-> [key \in {ps[i][1] : i \in 1..Len(ps)} |->
              ps[CHOOSE i \in 1..Len(ps) :
                    /\ ps[i][1] = key
                    /\ \A j \in (i + 1)..Len(ps) : ps[j][1] # key][2]]]

JFail == [ok |-> FALSE, val |-> PyNone, rest |-> <<>>]
JOk(v, r) == [ok |-> TRUE, val |-> v, rest |-> r]

StartsWith(s, p) == Len(s) >= Len(p) /\ SubSeq(s, 1, Len(p)) = p
Drop(s, n) == SubSeq(s, n + 1, Len(s))

\* true, false, null and the values they decode to
Literals ==
    {[text |-> <<"t", "r", "u", "e">>, val |-> PyBool(TRUE)],
     [text |-> <<"f", "a", "l", "s", "e">>, val |-> PyBool(FALSE)],
     [text |-> <<"n", "u", "l", "l">>, val |-> PyNone]}

\* the characters of a string literal after its opening quote
RECURSIVE ParseString(_, _)
ParseString(s, acc) ==
    IF s = <<>> \/ Head(s) = "\n" THEN JFail
    ELSE IF Head(s) = "\"" THEN JOk(PyStr(acc), Tail(s))
    ELSE ParseString(Tail(s), Append(acc, Head(s)))

RECURSIVE LeadingDigits(_)
LeadingDigits(s) ==
    IF s # <<>> /\ IsDigit(Head(s)) THEN 1 + LeadingDigits(Tail(s)) ELSE 0

\* an integer: an optional minus, then 0 or a digit string without a
\* leading 0
ParseNumber(s) ==
    LET neg == s # <<>> /\ Head(s) = "-"
        body == IF neg THEN Tail(s) ELSE s
        n == IF body # <<>> /\ Head(body) = "0" THEN 1 ELSE LeadingDigits(body)
        val == DigitsVal(SubSeq(body, 1, n), 0)
    IN  IF n = 0 THEN JFail
        ELSE JOk(PyInt(IF neg THEN -val ELSE val), Drop(body, n))

RECURSIVE ParseValue(_), ParseElems(_, _), ParseMembers(_, _)
ParseValue(s) ==
    LET t == StripLeft(s) IN
    IF t = <<>> THEN JFail
    ELSE IF Head(t) = "\"" THEN ParseString(Tail(t), <<>>)
    ELSE IF Head(t) = "[" THEN
        IF StartsWith(StripLeft(Tail(t)), <<"]">>)
        THEN JOk(PyList(<<>>), Tail(StripLeft(Tail(t))))
        ELSE ParseElems(Tail(t), <<>>)
    ELSE IF Head(t) = "{" THEN
        IF StartsWith(StripLeft(Tail(t)), <<"}">>)
        THEN JOk(PyDict(<<>>), Tail(StripLeft(Tail(t))))
        ELSE ParseMembers(Tail(t), <<>>)
    ELSE IF \E w \in Literals : StartsWith(t, w.text) THEN
        LET w == CHOOSE w \in Literals : StartsWith(t, w.text)
        IN  JOk(w.val, Drop(t, Len(w.text)))
    ELSE ParseNumber(t)

\* the elements of an array after `[` or `,`, up to and including `]`
ParseElems(s, acc) ==
    LET r == ParseValue(s)
        t == StripLeft(r.rest)
    IN  IF ~r.ok \/ t = <<>> THEN JFail
        ELSE IF Head(t) = "," THEN ParseElems(Tail(t), Append(acc, r.val))
        ELSE IF Head(t) = "]" THEN JOk(PyList(Append(acc, r.val)), Tail(t))
        ELSE JFail

\* the members of an object after `{` or `,`, up to and including `}`
ParseMembers(s, acc) ==
    LET t == StripLeft(s)
        key == IF StartsWith(t, <<"\"">>) THEN ParseString(Tail(t), <<>>)
               ELSE JFail
        u == StripLeft(key.rest)
        r == IF key.ok /\ StartsWith(u, <<":">>) THEN ParseValue(Tail(u))
             ELSE JFail
        w == StripLeft(r.rest)
    IN  IF ~r.ok \/ w = <<>> THEN JFail
        ELSE IF Head(w) = ","
        THEN ParseMembers(Tail(w), Append(acc, <<key.val.v, r.val>>))
        ELSE IF Head(w) = "}"
        THEN JOk(PyDict(Append(acc, <<key.val.v, r.val>>)), Tail(w))
        ELSE JFail

\* json.loads(text): one value and nothing but blanks after it
JsonLoads(text) ==
    LET r == ParseValue(text)
    IN  IF r.ok /\ StripLeft(r.rest) = <<>> THEN [ok |-> TRUE, val |-> r.val]
        ELSE [ok |-> FALSE, val |-> PyNone]

\* ------------------------------------------------------------- state
VARIABLES
    active,     \* the task ids in use
    redis,      \* self.redis is a client (TRUE) or None (FALSE)
    now,        \* time.time()
    stream,     \* stream[t]: the entries in the Redis stream of key t, by id
    appended,   \* appended[t]: every entry ever added to key t (id = index)
    ppc,        \* ppc[t]: position of the producer of t
    pushed,     \* pushed[t]: the lines given to push_task_output, in call order
    frc,        \* frc[t]: the rc given to finish_task_output
    fpc,        \* fpc[t]: position of fetch_task_output(t)
    rc,         \* local rc of fetch
    stoptime,   \* local stoptime of fetch
    last_id,    \* local last_id of fetch
    readStart,  \* time the pending XREAD was issued
    out,        \* out[t]: what fetch(t) printed
    result,     \* result[t]: what fetch(t) returned
    exit,       \* exit[t]: how fetch(t) ended
    consumed,   \* consumed[t]: ids of the entries fetch(t) dispatched, in order
    reliable,   \* no operation on the log raises (any more)
    fault,      \* fault[t]: a log operation on key t failed
    closed,     \* no writer but push and finish appends (any more)
    quota,      \* push calls left in this run
    mark,       \* mark[t]: time of the last arrival on t since fetch(t) began
    steady,     \* steady[t]: fetch(t) never waited Timeout or longer
    paced,      \* paced[t]: after an entry, it never waited longer than Timeout
    nb,         \* self.nb is a connection (TRUE) or None (FALSE)
    filterExpr, \* config.NETBOX_FILTER_CONDUCTOR_SONIC
    inventory,  \* the interfaces of the device, in the order of the inventory
    failAt,     \* the request to the inventory that raises (0: none does)
    answer,     \* what the call of a resolver method gave its caller
    asked,      \* ids of the interfaces whose addresses were requested
    again,      \* again[t]: fetch_task_output(t) was called a second time
    stale,      \* stale[t]: the log of key t when that second call began
    prior       \* prior[t]: the rc of an earlier task run with id t, if any

vars == <<active, redis, now, stream, appended, ppc, pushed, frc, fpc, rc,
          stoptime, last_id, readStart, out, result, exit, consumed, reliable,
          fault, closed, quota, mark, steady, paced, nb, filterExpr,
          inventory, failAt, answer, asked, again, stale, prior>>

prodVars == <<ppc, pushed, frc, quota>>
fetchVars == <<fpc, rc, stoptime, last_id, readStart, out, result, exit,
               consumed>>
resolverVars == <<nb, filterExpr, inventory, failAt, answer, asked>>
reuseVars == <<again, stale, prior>>

\* what another writer may append: an unknown type, an rc that is no
\* integer, an rc with surrounding blanks, an action that is not quit
Foreign == {[type |-> "other", content |-> <<"x">>],
            [type |-> "rc", content |-> <<"x">>],
            [type |-> "rc", content |-> <<" ", "7">>],
            [type |-> "action", content |-> <<"x">>]}

Start ==
    /\ redis \in BOOLEAN
    /\ now = 0
    /\ stream = [t \in Tasks |-> <<>>]
    /\ appended = [t \in Tasks |-> <<>>]
    /\ ppc = [t \in Tasks |-> "run"]
    /\ pushed = [t \in Tasks |-> <<>>]
    /\ frc = [t \in Tasks |-> 0]
    /\ fpc = [t \in Tasks |-> "idle"]
    /\ rc = [t \in Tasks |-> 0]
    /\ stoptime = [t \in Tasks |-> 0]
    /\ last_id = [t \in Tasks |-> 0]
    /\ readStart = [t \in Tasks |-> 0]
    /\ out = [t \in Tasks |-> <<>>]
    /\ result = [t \in Tasks |-> 0]
    /\ exit = [t \in Tasks |-> "none"]
    /\ consumed = [t \in Tasks |-> <<>>]
    /\ fault = [t \in Tasks |-> FALSE]
    /\ mark = [t \in Tasks |-> 0]
    /\ steady = [t \in Tasks |-> TRUE]
    /\ paced = [t \in Tasks |-> TRUE]
    /\ again = [t \in Tasks |-> FALSE]
    /\ stale = [t \in Tasks |-> <<>>]
    /\ prior = [t \in Tasks |-> <<>>]

\* no resolver method has been called
NoAnswer == [fn |-> "none", raised |-> FALSE, val |-> PyNone]

\* the resolver is left alone
Unresolved ==
    /\ nb = FALSE
    /\ filterExpr = <<>>
    /\ inventory = <<>>
    /\ failAt = 0
    /\ answer = NoAnswer
    /\ asked = <<>>

\* one task id in use
Init ==
    /\ Start
    /\ Unresolved
    /\ active = {"A"}
    /\ reliable = FALSE
    /\ closed = FALSE
    /\ quota = MaxLines

\* two task ids in use at once
InitPair ==
    /\ Start
    /\ Unresolved
    /\ active = Tasks
    /\ reliable = TRUE
    /\ closed = TRUE
    /\ quota = MaxLinesPair

\* ------------------------------------------------------------- the log
\* faulty variant: the guard on the client is missing
ConnectedAlways == TRUE

\* `if self.redis:` / `if not self.redis:`
Connected == redis

\* XADD key * type ... content ...: the log assigns the next id of the key
XAdd(t, type, content, src) ==
    LET e == [id |-> Len(appended[t]) + 1, type |-> type,
              content |-> content, src |-> src]
    IN  /\ stream' = [stream EXCEPT ![t] = Append(@, e)]
        /\ appended' = [appended EXCEPT ![t] = Append(@, e)]
        /\ mark' = [mark EXCEPT ![t] = IF fpc[t] \in {"idle", "done"}
                                         THEN @ ELSE now]

\* the entries of key t with an id after the cursor
After(t, cursor) == SelectSeq(stream[t], LAMBDA e : e.id > cursor)

\* XREAD COUNT 1 STREAMS key last_id: the key the command names
ReadKey(t) == t

\* faulty variant: every fetch deletes from the same key
DelKeyFirst(t) == "A"

\* XDEL key id: the key the command names
DelKey(t) == t

\* faulty variant: the delete removes nothing
XDelNothing(s, id) == s

\* XDEL key id
XDel(s, id) == SelectSeq(s, LAMBDA e : e.id # id)

\* an operation on the log raises (connection lost, server error)
CanFail == ~reliable

Fail(t) ==
    /\ reliable' = TRUE
    /\ fault' = [fault EXCEPT ![t] = TRUE]

NoFail == UNCHANGED <<reliable, fault>>

\* ------------------------------------------------------------- producer
\* faulty variant: the two xadd of finish in the other order
FinishEntriesSwapped(r) ==
    <<[type |-> "action", content |-> QuitText],
      [type |-> "rc", content |-> IntToStr(r)]>>

\* the two entries finish_task_output appends, in the order of its two xadd
FinishEntries(r) ==
    <<[type |-> "rc", content |-> IntToStr(r)],
      [type |-> "action", content |-> QuitText]>>

\* faulty variant: the handler lets the exception go on to the caller
Reraised(pc) == "raised"

\* `except Exception as e: logger.error(...)` of push and of finish: the
\* method returns, the producer is where a normal return leaves it
Swallowed(pc) == pc

\* push_task_output(t, line)
Push(t, line) ==
    /\ ppc[t] = "run"
    /\ quota > 0
    /\ quota' = quota - 1
    /\ pushed' = [pushed EXCEPT ![t] = Append(@, line)]
    /\ IF Connected
       THEN \/ /\ XAdd(t, "stdout", line, "push") /\ NoFail
               /\ UNCHANGED ppc
            \/ /\ CanFail /\ Fail(t)
               /\ ppc' = [ppc EXCEPT ![t] = Swallowed("run")]
               /\ UNCHANGED <<stream, appended, mark>>
       ELSE NoFail /\ UNCHANGED <<ppc, stream, appended, mark>>
    /\ UNCHANGED <<resolverVars, reuseVars>>
    /\ UNCHANGED <<active, redis, now, frc, fetchVars, closed, steady,
                   paced>>

\* finish_task_output(t, r) up to and including its first xadd
FinishRc(t, r) ==
    /\ ppc[t] = "run"
    /\ frc' = [frc EXCEPT ![t] = r]
    /\ IF Connected
       THEN \/ /\ XAdd(t, FinishEntries(r)[1].type, FinishEntries(r)[1].content,
                    "finish")
               /\ NoFail
               /\ ppc' = [ppc EXCEPT ![t] = "second"]
            \/ /\ CanFail /\ Fail(t)
               /\ ppc' = [ppc EXCEPT ![t] = Swallowed("done")]
               /\ UNCHANGED <<stream, appended, mark>>
       ELSE /\ NoFail
            /\ ppc' = [ppc EXCEPT ![t] = "done"]
            /\ UNCHANGED <<stream, appended, mark>>
    /\ UNCHANGED <<resolverVars, reuseVars>>
    /\ UNCHANGED <<active, redis, now, pushed, quota, fetchVars, closed,
                   steady, paced>>

\* finish_task_output(t, r): its second xadd and return
FinishQuit(t) ==
    /\ ppc[t] = "second"
    /\ \/ /\ XAdd(t, FinishEntries(frc[t])[2].type,
                  FinishEntries(frc[t])[2].content, "finish")
          /\ NoFail
          /\ ppc' = [ppc EXCEPT ![t] = "done"]
       \/ /\ CanFail /\ Fail(t)
          /\ ppc' = [ppc EXCEPT ![t] = Swallowed("done")]
          /\ UNCHANGED <<stream, appended, mark>>
    /\ UNCHANGED <<resolverVars, reuseVars>>
    /\ UNCHANGED <<active, redis, now, pushed, frc, quota, fetchVars, closed,
                   steady, paced>>

\* another writer of the shared log appends an entry to key t
Inject(t, e) ==
    /\ ~closed
    /\ closed' = TRUE
    /\ XAdd(t, e.type, e.content, "other")
    /\ UNCHANGED <<resolverVars, reuseVars>>
    /\ UNCHANGED <<active, redis, now, prodVars, fetchVars, reliable, fault,
                   steady, paced>>

\* ------------------------------------------------------------- fetch
\* `stoptime = time.time() + timeout` before the loop
StartDeadline == now + Timeout

\* faulty variant: a call reads only what is appended after it began
StartCursorNewest(t) == Len(appended[t])

\* `last_id = 0` before the loop
StartCursor(t) == 0

\* faulty variant: an entry does not move the deadline
EntryDeadlineKept(old) == old

\* `stoptime = time.time() + timeout` in `if data:`
EntryDeadline(old) == now + Timeout

\* faulty variant: the loop is `while True`
RunningAlways(t) == TRUE

\* `while time.time() < stoptime`
Running(t) == now < stoptime[t]

\* faulty variant: the read returns the newest entry after the cursor
ReceivedNewest(t) ==
    LET es == After(ReadKey(t), last_id[t]) IN es[Len(es)]

\* what the XREAD of fetch(t) returns when an entry is there: COUNT 1
Received(t) == Head(After(ReadKey(t), last_id[t]))

\* the rc branch of the dispatch
RcOf(old, e) == IF e.type = "rc" THEN ParseInt(e.content).val ELSE old

\* int() raises ValueError
RcRaises(e) == e.type = "rc" /\ ~ParseInt(e.content).ok

\* faulty variant: the text is put in front of what was printed
PrintedFront(old, e) == IF e.type = "stdout" THEN e.content \o old ELSE old

\* the stdout branch of the dispatch: print(message_content, end="")
Printed(old, e) == IF e.type = "stdout" THEN old \o e.content ELSE old

\* faulty variant: the last branch is a plain else
IsQuitElse(e) == e.type \notin {"stdout", "rc"}

\* the action branch of the dispatch
IsQuit(e) == e.type = "action" /\ e.content = QuitText

\* faulty variant: the code returned after the loop is the default
AfterLoopZero(t) == 0

\* `return rc` after the loop, reached by the deadline or by `break`
AfterLoop(t) == rc[t]

\* `return value`: the locals of the call are gone
Return(t, how, value) ==
    /\ fpc' = [fpc EXCEPT ![t] = "done"]
    /\ result' = [result EXCEPT ![t] = value]
    /\ exit' = [exit EXCEPT ![t] = how]
    /\ rc' = [rc EXCEPT ![t] = 0]
    /\ stoptime' = [stoptime EXCEPT ![t] = 0]
    /\ last_id' = [last_id EXCEPT ![t] = 0]
    /\ readStart' = [readStart EXCEPT ![t] = 0]

\* fetch_task_output(t, Timeout) is called
FetchStart(t) ==
    /\ fpc[t] = "idle"
    /\ IF ~Connected
       THEN /\ Return(t, "noredis", 0)
            /\ UNCHANGED mark
       ELSE /\ rc' = [rc EXCEPT ![t] = 0]
            /\ stoptime' = [stoptime EXCEPT ![t] = StartDeadline]
            /\ last_id' = [last_id EXCEPT ![t] = StartCursor(t)]
            /\ fpc' = [fpc EXCEPT ![t] = "loop"]
            /\ mark' = [mark EXCEPT ![t] = now]
            /\ UNCHANGED <<result, exit, readStart>>
    /\ UNCHANGED <<resolverVars, reuseVars>>
    /\ UNCHANGED <<active, redis, now, stream, appended, prodVars, out,
                   consumed, reliable, fault, closed, steady, paced>>

\* the loop condition holds and the blocking XREAD is issued
FetchRead(t) ==
    /\ fpc[t] = "loop"
    /\ Running(t)
    /\ fpc' = [fpc EXCEPT ![t] = "blocked"]
    /\ readStart' = [readStart EXCEPT ![t] = now]
    /\ UNCHANGED <<resolverVars, reuseVars>>
    /\ UNCHANGED <<active, redis, now, stream, appended, prodVars, rc,
                   stoptime, last_id, out, result, exit, consumed, reliable,
                   fault, closed, mark, steady, paced>>

\* the loop condition fails: `return rc` after the loop
FetchExpire(t) ==
    /\ fpc[t] = "loop"
    /\ ~Running(t)
    /\ Return(t, "deadline", AfterLoop(t))
    /\ UNCHANGED <<resolverVars, reuseVars>>
    /\ UNCHANGED <<active, redis, now, stream, appended, prodVars, out,
                   consumed, reliable, fault, closed, mark, steady, paced>>

\* XREAD returns nothing after blocking for timeout * 1000 ms
FetchEmpty(t) ==
    /\ fpc[t] = "blocked"
    /\ After(ReadKey(t), last_id[t]) = <<>>
    /\ now >= readStart[t] + Timeout
    /\ fpc' = [fpc EXCEPT ![t] = "loop"]
    /\ UNCHANGED <<resolverVars, reuseVars>>
    /\ UNCHANGED <<active, redis, now, stream, appended, prodVars, rc,
                   stoptime, last_id, readStart, out, result, exit, consumed,
                   reliable, fault, closed, mark, steady, paced>>

\* XREAD raises: logged, `break`, `return rc`
FetchReadError(t) ==
    /\ fpc[t] = "blocked"
    /\ CanFail /\ Fail(t)
    /\ Return(t, "error", AfterLoop(t))
    /\ UNCHANGED <<resolverVars, reuseVars>>
    /\ UNCHANGED <<active, redis, now, stream, appended, prodVars, out,
                   consumed, closed, mark, steady, paced>>

\* XREAD returns one entry: the body of `if data:`
FetchEntry(t) ==
    /\ fpc[t] = "blocked"
    /\ After(ReadKey(t), last_id[t]) # <<>>
    /\ LET e == Received(t) IN
       \/ \* XDEL raises: logged, `break`, `return rc`
          /\ CanFail /\ Fail(t)
          /\ Return(t, "error", AfterLoop(t))
          /\ UNCHANGED <<stream, out, consumed>>
       \/ /\ NoFail
          /\ consumed' = [consumed EXCEPT ![t] = Append(@, e.id)]
          /\ stream' = [stream EXCEPT ![DelKey(t)] = XDel(@, e.id)]
          /\ out' = [out EXCEPT ![t] = Printed(@, e)]
          /\ IF RcRaises(e)
             THEN \* ValueError: logged, `break`, `return rc`
                  Return(t, "valueerror", AfterLoop(t))
             ELSE IF IsQuit(e)
             THEN Return(t, "quit", RcOf(rc[t], e))
             ELSE /\ fpc' = [fpc EXCEPT ![t] = "loop"]
                  /\ rc' = [rc EXCEPT ![t] = RcOf(@, e)]
                  /\ stoptime' = [stoptime EXCEPT ![t] = EntryDeadline(@)]
                  /\ last_id' = [last_id EXCEPT ![t] = e.id]
                  /\ UNCHANGED <<result, exit, readStart>>
    /\ UNCHANGED <<resolverVars, reuseVars>>
    /\ UNCHANGED <<active, redis, now, appended, prodVars, closed, mark,
                   steady, paced>>

\* ------------------------------------------------------------- time
\* fetch(t) is blocked in an XREAD that has nothing to return yet
Waiting(t) ==
    /\ fpc[t] = "blocked"
    /\ After(ReadKey(t), last_id[t]) = <<>>
    /\ now < readStart[t] + Timeout

Tick ==
    /\ now < MaxTime
    /\ \E t \in active : Waiting(t)
    /\ \A t \in Tasks : fpc[t] \in {"idle", "done"} \/ Waiting(t)
    /\ now' = now + 1
    /\ steady' = [t \in Tasks |->
                    steady[t] /\ (Waiting(t) => now + 1 - mark[t] < Timeout)]
    /\ paced' = [t \in Tasks |->
                    paced[t] /\ ((Waiting(t) /\ appended[t] # <<>>)
                                    => now + 1 - mark[t] <= Timeout)]
    /\ UNCHANGED <<resolverVars, reuseVars>>
    /\ UNCHANGED <<active, redis, stream, appended, prodVars, fetchVars,
                   reliable, fault, closed, mark>>

Next ==
    \/ \E t \in active, line \in Lines : Push(t, line)
    \/ \E t \in active, r \in RCs : FinishRc(t, r)
    \/ \E t \in active : FinishQuit(t)
    \/ \E t \in active, e \in Foreign : Inject(t, e)
    \/ \E t \in active : FetchStart(t)
    \/ \E t \in active : FetchRead(t)
    \/ \E t \in active : FetchExpire(t)
    \/ \E t \in active : FetchEmpty(t)
    \/ \E t \in active : FetchReadError(t)
    \/ \E t \in active : FetchEntry(t)
    \/ Tick

\* the steps of a run over a log that never fails and has no other writer
NextPair ==
    \/ \E t \in active, line \in Lines : Push(t, line)
    \/ \E t \in active, r \in RCs : FinishRc(t, r)
    \/ \E t \in active : FinishQuit(t)
    \/ \E t \in active : FetchStart(t)
    \/ \E t \in active : FetchRead(t)
    \/ \E t \in active : FetchExpire(t)
    \/ \E t \in active : FetchEmpty(t)
    \/ \E t \in active : FetchEntry(t)
    \/ Tick

Spec == Init /\ [][Next]_vars

SpecPair == InitPair /\ [][NextPair]_vars

\* ------------------------------------------------------------- id reuse
\* fetch_task_output(t, Timeout) is called again after an earlier call for
\* the same id has returned: a new call, with new locals
FetchAgain(t) ==
    /\ fpc[t] = "done"
    /\ ~again[t]
    /\ again' = [again EXCEPT ![t] = TRUE]
    /\ stale' = [stale EXCEPT ![t] = stream[t]]
    /\ out' = [out EXCEPT ![t] = <<>>]
    /\ consumed' = [consumed EXCEPT ![t] = <<>>]
    /\ steady' = [steady EXCEPT ![t] = TRUE]
    /\ paced' = [paced EXCEPT ![t] = TRUE]
    /\ IF ~Connected
       THEN /\ Return(t, "noredis", 0)
            /\ UNCHANGED mark
       ELSE /\ rc' = [rc EXCEPT ![t] = 0]
            /\ stoptime' = [stoptime EXCEPT ![t] = StartDeadline]
            /\ last_id' = [last_id EXCEPT ![t] = StartCursor(t)]
            /\ fpc' = [fpc EXCEPT ![t] = "loop"]
            /\ exit' = [exit EXCEPT ![t] = "none"]
            /\ mark' = [mark EXCEPT ![t] = now]
            /\ UNCHANGED <<result, readStart>>
    /\ UNCHANGED <<resolverVars, prior>>
    /\ UNCHANGED <<active, redis, now, stream, appended, prodVars, reliable,
                   fault, closed>>

\* the task id t is used for another task run after the fetch of the
\* earlier run has returned: its producer pushes and finishes anew
RunAgain(t) ==
    /\ ppc[t] = "done"
    /\ fpc[t] = "done"
    /\ prior[t] = <<>>
    /\ prior' = [prior EXCEPT ![t] = <<frc[t]>>]
    /\ ppc' = [ppc EXCEPT ![t] = "run"]
    /\ UNCHANGED <<resolverVars, again, stale>>
    /\ UNCHANGED <<active, redis, now, stream, appended, pushed, frc, quota,
                   fetchVars, reliable, fault, closed, mark, steady, paced>>

\* one task id, used for up to two task runs and two fetch calls, with no
\* other writer
InitReuse ==
    /\ Start
    /\ Unresolved
    /\ active = {"A"}
    /\ reliable = FALSE
    /\ closed = TRUE
    /\ quota = MaxLinesPair

NextReuse ==
    \/ NextPair
    \/ \E t \in active : FetchReadError(t)
    \/ \E t \in active : FetchAgain(t)
    \/ \E t \in active : RunAgain(t)

SpecReuse == InitReuse /\ [][NextReuse]_vars

\* ------------------------------------------------------------- time goes on
\* A second passes once the clock shows MaxTime: the clock keeps its
\* reading and every time a waiting fetch holds is moved back by one, which
\* leaves all differences as a tick does.
Earlier(f) == [t \in Tasks |-> IF Waiting(t) THEN f[t] - 1 ELSE f[t]]

TickLate ==
    /\ now = MaxTime
    /\ \E t \in active : Waiting(t)
    /\ \A t \in Tasks : fpc[t] \in {"idle", "done"} \/ Waiting(t)
    /\ stoptime' = Earlier(stoptime)
    /\ readStart' = Earlier(readStart)
    /\ mark' = Earlier(mark)
    /\ steady' = [t \in Tasks |->
                    steady[t] /\ (Waiting(t) => now + 1 - mark[t] < Timeout)]
    /\ paced' = [t \in Tasks |->
                    paced[t] /\ ((Waiting(t) /\ appended[t] # <<>>)
                                    => now + 1 - mark[t] <= Timeout)]
    /\ UNCHANGED <<resolverVars, reuseVars>>
    /\ UNCHANGED <<active, redis, now, stream, appended, prodVars, fpc, rc,
                   last_id, out, result, exit, consumed, reliable, fault,
                   closed>>

\* a step of fetch(t) that the process running it takes by itself
FetchStep(t) ==
    \/ FetchRead(t)
    \/ FetchExpire(t)
    \/ FetchEmpty(t)
    \/ FetchEntry(t)

\* one task id in use, with a failing log operation and another writer
InitLive ==
    /\ Start
    /\ Unresolved
    /\ active = {"A"}
    /\ reliable = FALSE
    /\ closed = FALSE
    /\ quota = MaxLinesPair

NextLive ==
    \/ Next
    \/ TickLate

\* the process that runs fetch goes on, a blocked XREAD returns when it
\* can, and time passes; the producer may stop anywhere
SpecLive ==
    /\ InitLive
    /\ [][NextLive]_vars
    /\ \A t \in Tasks : WF_vars(FetchStep(t))
    /\ WF_vars(Tick \/ TickLate)

\* ------------------------------------------------------------- resolver
\* The inventory is the answer of the inventory system for one device: its
\* interfaces in the order the system lists them, each with the addresses
\* assigned to it and its VLANs.  A listing is fetched item by item, and
\* each fetch is a request that can raise; failAt numbers the requests of
\* one call from 1.

\* addresses as the inventory holds them: with a prefix length, without,
\* and with two slashes
Prefixed == <<"1", ".", "5", "/", "2", "4">>
Bare == <<"2", ".", "6">>
TwoSlashes == <<"3", "/", "4", "/", "5">>
AddressLists == {<<>>, <<Prefixed>>, <<Bare, Prefixed>>, <<TwoSlashes>>}
TaggedLists == {<<>>, <<20>>, <<20, 30>>}
Names == {"eth0", "Loopback0"}

\* an interface record; untagged_vlan 0 stands for None
Interface(i, sh) ==
    [id |-> i, name |-> sh.name, mgmt_only |-> sh.mgmt_only,
     addresses |-> sh.addresses, untagged_vlan |-> sh.untagged_vlan,
     tagged_vlans |-> sh.tagged_vlans]

\* interfaces that differ in what one of the three methods looks at: the
\* management flag and the addresses, the VLANs, the name
Shapes ==
    {{[name |-> "eth0", mgmt_only |-> m, addresses |-> a,
       untagged_vlan |-> 0, tagged_vlans |-> <<>>] :
         m \in BOOLEAN, a \in AddressLists},
     {[name |-> "eth0", mgmt_only |-> FALSE, addresses |-> <<>>,
       untagged_vlan |-> u, tagged_vlans |-> tg] :
         u \in {0, 10, 20}, tg \in TaggedLists},
     {[name |-> n, mgmt_only |-> FALSE, addresses |-> <<>>,
       untagged_vlan |-> 0, tagged_vlans |-> <<>>] : n \in Names}}

\* the devices: up to MaxIfaces interfaces that differ in one of the three
Inventories ==
    UNION {{[i \in 1..n |-> Interface(i, f[i])] : f \in [1..n -> S]} :
              n \in 0..MaxIfaces, S \in Shapes}

\* filter(device_id=device.id, name__ic="loopback"), answered by the
\* inventory: the interfaces whose name contains loopback, whatever the case
NameIcLoopback(ifs) == SelectSeq(ifs, LAMBDA i : i.name \in {"Loopback0"})

\* filter(device_id=device.id, mgmt_only=True), answered by the inventory
MgmtOnly(ifs) == SelectSeq(ifs, LAMBDA i : i.mgmt_only)

\* ip_addresses.filter(assigned_object_id=interface.id), answered by the
\* inventory
AssignedTo(i) == i.addresses

\* the requests that iterating over a whole listing takes
Requests(items) == IF items = <<>> THEN 1 ELSE Len(items)

Returned(v) == [raised |-> FALSE, val |-> v]

\* faulty variant: the handler lets the exception go on to the caller
OnErrorRaised(fallback) == [raised |-> TRUE, val |-> fallback]

\* `except Exception as e: logger.error(...)` and the value returned then
OnError(fallback) == [raised |-> FALSE, val |-> fallback]

\* faulty variant: the fallback is no clause at all
EmptyFilter == PyList(<<>>)

StateText == <<"s", "t", "a", "t", "e">>
ActiveText == <<"a", "c", "t", "i", "v", "e">>
TagText == <<"t", "a", "g">>
ManagedByMetalboxText ==
    <<"m", "a", "n", "a", "g", "e", "d", "-", "b", "y", "-",
      "m", "e", "t", "a", "l", "b", "o", "x">>

\* [{"state": "active", "tag": ["managed-by-metalbox"]}]
DefaultFilter ==
    PyList(<<PyDict(<<
        <<StateText, PyStr(ActiveText)>>,
        <<TagText, PyList(<<PyStr(ManagedByMetalboxText)>>)>> >>)>>)

\* get_nb_device_query_list_sonic()
QueryList ==
    LET r == JsonLoads(filterExpr)
    IN  IF r.ok THEN Returned(r.val) ELSE Returned(DefaultFilter)

\* get_device_loopbacks(device)
Loopbacks ==
    IF ~nb THEN Returned(PyList(<<>>))
    ELSE LET items == NameIcLoopback(inventory)
         IN  IF failAt \in 1..Requests(items) THEN OnError(PyList(<<>>))
             ELSE Returned(PyList(items))

\* faulty variant: the address is returned as the inventory holds it
WholeAddress(s) == s

\* str(ip.address).split("/")[0]
RECURSIVE BeforeSlash(_)
BeforeSlash(s) ==
    IF s = <<>> \/ Head(s) = "/" THEN <<>>
    ELSE <<Head(s)>> \o BeforeSlash(Tail(s))

\* the two nested loops of get_device_oob_ip over the management-only
\* interfaces ms still to come, after n requests, seen being the
\* interfaces whose addresses were requested
RECURSIVE OobScan(_, _, _)
OobScan(ms, n, seen) ==
    IF ms = <<>>
    THEN [failed |-> n = 0 /\ failAt = 1, val |-> PyNone, asked |-> seen]
    ELSE IF failAt = n + 1
    THEN [failed |-> TRUE, val |-> PyNone, asked |-> seen]
    ELSE LET i == Head(ms) IN
         IF failAt = n + 2
         THEN [failed |-> TRUE, val |-> PyNone, asked |-> Append(seen, i.id)]
         ELSE IF AssignedTo(i) # <<>>
         THEN [failed |-> FALSE,
               val |-> PyStr(BeforeSlash(Head(AssignedTo(i)))),
               asked |-> Append(seen, i.id)]
         ELSE OobScan(Tail(ms), n + 2, Append(seen, i.id))

\* get_device_oob_ip(device)
OobIp ==
    IF ~nb THEN Returned(PyNone)
    ELSE LET r == OobScan(MgmtOnly(inventory), 0, <<>>)
         IN  IF r.failed THEN OnError(PyNone) ELSE Returned(r.val)

\* the list `vlans` after the loop of get_device_vlans over ifs
RECURSIVE Collected(_)
Collected(ifs) ==
    IF ifs = <<>> THEN <<>>
    ELSE LET i == Head(ifs)
         IN  (IF i.untagged_vlan # 0 THEN <<i.untagged_vlan>> ELSE <<>>)
             \o i.tagged_vlans \o Collected(Tail(ifs))

\* faulty variant: the list is returned as collected
AsCollected(vs) == {vs}

\* list(set(vlans)): the members once each, in an order that is not defined
ListOfSet(vs) ==
    LET S == {vs[i] : i \in 1..Len(vs)}
    IN  {f \in [1..Cardinality(S) -> S] : {f[i] : i \in DOMAIN f} = S}

\* get_device_vlans(device): the values it can return
Vlans ==
    IF ~nb THEN {Returned(PyList(<<>>))}
    ELSE IF failAt \in 1..Requests(inventory) THEN {OnError(PyList(<<>>))}
    ELSE {Returned(PyList(vs)) : vs \in ListOfSet(Collected(inventory))}

\* ------------------------------------------------------------- filter text
\* A document is a JSON value as it is written: like a Python value, but an
\* object is the sequence of its members as written.
DocObject(ms) == [k |-> "members", v |-> ms]

\* the separators of json.dumps: its default, and the compact ones
Separators == {[item |-> <<",", " ">>, key |-> <<":", " ">>],
               [item |-> <<",">>, key |-> <<":">>]}
Compact == [item |-> <<",">>, key |-> <<":">>]

\* the text of a document
RECURSIVE JsonText(_, _), JoinItems(_, _), JoinMembers(_, _)
JsonText(d, sep) ==
    IF d.k = "str" THEN <<"\"">> \o d.v \o <<"\"">>
    ELSE IF d.k = "num" THEN IntToStr(d.v)
    ELSE IF d.k = "bool"
    THEN (IF d.v THEN <<"t", "r", "u", "e">> ELSE <<"f", "a", "l", "s", "e">>)
    ELSE IF d.k = "none" THEN <<"n", "u", "l", "l">>
    ELSE IF d.k = "list" THEN <<"[">> \o JoinItems(d.v, sep) \o <<"]">>
    ELSE <<"{">> \o JoinMembers(d.v, sep) \o <<"}">>

JoinItems(ds, sep) ==
    IF ds = <<>> THEN <<>>
    ELSE JsonText(Head(ds), sep)
         \o (IF Tail(ds) = <<>> THEN <<>>
             ELSE sep.item \o JoinItems(Tail(ds), sep))

JoinMembers(ms, sep) ==
    IF ms = <<>> THEN <<>>
    ELSE <<"\"">> \o Head(ms)[1] \o <<"\"">> \o sep.key
         \o JsonText(Head(ms)[2], sep)
         \o (IF Tail(ms) = <<>> THEN <<>>
             ELSE sep.item \o JoinMembers(Tail(ms), sep))

\* filter expressions an operator may write: a list of one clause, an empty
\* list, an object with a key written twice, a list of mixed values, a string
Documents ==
    {PyList(<<DocObject(<<
         <<StateText, PyStr(<<"o", "f", "f">>)>>,
         <<TagText, PyList(<<PyStr(<<"a">>), PyStr(<<"b">>)>>)>> >>)>>),
     PyList(<<>>),
     DocObject(<< <<TagText, PyStr(<<"a">>)>>, <<TagText, PyStr(<<"b">>)>> >>),
     PyList(<<DocObject(<< <<(<<"n">>), PyInt(-12)>>,
                           <<(<<"o">>), PyBool(TRUE)>>,
                           <<(<<"x">>), PyNone>> >>),
              PyStr(<<"a", " ", "b">>)>>),
     PyStr(ActiveText)}

\* a document written in full
WholeTexts == {JsonText(d, sep) : d \in Documents, sep \in Separators}

\* a document that stops early
CutTexts ==
    UNION {{SubSeq(JsonText(d, Compact), 1, n) :
               n \in 0..(Len(JsonText(d, Compact)) - 1)} : d \in Documents}

\* a document with one more character after its end
Trailers == {"]", "}", ",", "\"", "x"}
LongTexts == {JsonText(d, Compact) \o <<c>> : d \in Documents, c \in Trailers}

FilterTexts == WholeTexts \cup CutTexts \cup LongTexts

\* ------------------------------------------------------------- resolver calls
telemetryVars == <<active, redis, now, stream, appended, prodVars, fetchVars,
                   reliable, fault, closed, mark, steady, paced, reuseVars>>

Answer(fn, r) == [fn |-> fn, raised |-> r.raised, val |-> r.val]

GetQueryList ==
    /\ answer = NoAnswer
    /\ answer' = Answer("query_list", QueryList)
    /\ UNCHANGED <<nb, filterExpr, inventory, failAt, asked, telemetryVars>>

GetLoopbacks ==
    /\ answer = NoAnswer
    /\ answer' = Answer("loopbacks", Loopbacks)
    /\ UNCHANGED <<nb, filterExpr, inventory, failAt, asked, telemetryVars>>

GetOobIp ==
    /\ answer = NoAnswer
    /\ answer' = Answer("oob_ip", OobIp)
    /\ asked' = IF nb THEN OobScan(MgmtOnly(inventory), 0, <<>>).asked
                ELSE <<>>
    /\ UNCHANGED <<nb, filterExpr, inventory, failAt, telemetryVars>>

GetVlans ==
    /\ answer = NoAnswer
    /\ \E r \in Vlans : answer' = Answer("vlans", r)
    /\ UNCHANGED <<nb, filterExpr, inventory, failAt, asked, telemetryVars>>

\* the client as constructed, one device of the inventory, one filter
\* expression of the configuration
InitResolver ==
    /\ Start
    /\ redis
    /\ active = {}
    /\ reliable = TRUE
    /\ closed = TRUE
    /\ quota = 0
    /\ answer = NoAnswer
    /\ asked = <<>>
    /\ \/ /\ filterExpr \in FilterTexts
          /\ nb = TRUE /\ inventory = <<>> /\ failAt = 0
       \/ /\ filterExpr = <<>>
          /\ nb \in BOOLEAN
          /\ inventory \in Inventories
          /\ failAt \in 0..(2 * MaxIfaces)

NextResolver ==
    \/ GetQueryList
    \/ GetLoopbacks
    \/ GetOobIp
    \/ GetVlans

SpecResolver == InitResolver /\ [][NextResolver]_vars

\* ------------------------------------------------------------- claims
RECURSIVE Concat(_)
Concat(ss) == IF ss = <<>> THEN <<>> ELSE Head(ss) \o Concat(Tail(ss))

\* the entries fetch(t) dispatched, in dispatch order
Dispatched(t) == [i \in 1..Len(consumed[t]) |-> appended[t][consumed[t][i]]]

\* only push and finish wrote to key t
OwnOnly(t) == \A i \in 1..Len(appended[t]) : appended[t][i].src # "other"

\* the run of t the round trip is about: the log reachable throughout, no
\* other writer, and fetch(t) never idle for a whole timeout
Undisturbed(t) == Connected /\ ~fault[t] /\ OwnOnly(t) /\ steady[t]

\* C1: round trip. When fetch(t) has returned in an undisturbed run (every
\* push and finish appended, an interleaving in which the wait for the next
\* entry never reached the timeout), it returned by the quit, with exactly
\* the rc given to finish, and it printed exactly the pushed lines in push
\* order.
RoundTrip ==
    \A t \in Tasks :
        (fpc[t] = "done" /\ Undisturbed(t)) =>
            /\ exit[t] = "quit"
            /\ ppc[t] = "done"
            /\ result[t] = frc[t]
            /\ out[t] = Concat(pushed[t])

\* C1 as stated: it bounds only the gaps between consecutive entries, and
\* lets a gap equal the timeout.
RoundTripPaced ==
    \A t \in Tasks :
        (/\ fpc[t] = "done" /\ ppc[t] = "done"
         /\ Connected /\ ~fault[t] /\ OwnOnly(t) /\ paced[t]) =>
            /\ result[t] = frc[t]
            /\ out[t] = Concat(pushed[t])

\* two different lines and a negative rc went round, the fetch having
\* waited in between
RoundTripWitness ==
    /\ fpc["A"] = "done" /\ Undisturbed("A")
    /\ pushed["A"] = <<(<<"b">>), (<<"a">>)>>
    /\ result["A"] = -13
    /\ now > 0

\* C2: every quit appended by finish comes after the rc entry of the same
\* finish call in the order of the key, and that entry carries str(rc).
RcBeforeQuit ==
    \A t \in Tasks : \A i \in 1..Len(appended[t]) :
        (appended[t][i].src = "finish" /\ appended[t][i].type = "action") =>
            \E j \in 1..(i - 1) :
                /\ appended[t][j].src = "finish"
                /\ appended[t][j].type = "rc"
                /\ appended[t][j].content = IntToStr(frc[t])

\* finish(-13) has appended both its entries, after a pushed line
RcBeforeQuitWitness ==
    /\ ppc["A"] = "done"
    /\ Len(appended["A"]) = 3
    /\ appended["A"][3].src = "finish"
    /\ appended["A"][3].content = QuitText
    /\ appended["A"][2].content = <<"-", "1", "3">>

\* C3: the timeout is an idle timeout. The deadline in force while fetch
\* waits is the time it last received an entry (or began) plus the timeout,
\* and fetch returns by the deadline only in a run in which it once waited
\* a whole timeout for the next entry, however long it has been running.
IdleTimeout ==
    \A t \in Tasks :
        /\ fpc[t] = "blocked" => stoptime[t] = readStart[t] + Timeout
        /\ Waiting(t) => stoptime[t] = mark[t] + Timeout
        /\ exit[t] = "deadline" => ~steady[t]

\* fetch ran for longer than the timeout, never waited a whole timeout, and
\* ended at the quit
IdleTimeoutWitness ==
    /\ exit["A"] = "quit"
    /\ steady["A"]
    /\ now > Timeout
    /\ Len(consumed["A"]) >= 3

\* the rc a fetch holds after dispatching the entries es: the value of the
\* last rc entry that is an integer, 0 without one
RECURSIVE LastRc(_)
LastRc(es) ==
    IF es = <<>> THEN 0
    ELSE LET e == es[Len(es)] IN
         IF e.type = "rc" /\ ParseInt(e.content).ok
         THEN ParseInt(e.content).val
         ELSE LastRc(SubSeq(es, 1, Len(es) - 1))

\* C4: fetch always ends by returning a value. When it ends because the
\* deadline elapsed or a read or delete on the log failed, it returns the
\* value of the last rc entry it dispatched, 0 if it dispatched none.
SoftExit ==
    \A t \in Tasks :
        /\ fpc[t] = "done" =>
              exit[t] \in {"quit", "deadline", "error", "valueerror", "noredis"}
        /\ exit[t] \in {"deadline", "error"} =>
              result[t] = LastRc(Dispatched(t))

\* the deadline elapsed after an rc entry was dispatched: that rc is returned
SoftExitWitness ==
    /\ exit["A"] = "deadline"
    /\ result["A"] = -13
    /\ Len(consumed["A"]) = 2

\* C5: with no client (the ping at construction failed) push and finish
\* append nothing and finish stops after its guard, fetch returns 0 at once
\* without issuing a read, and no time is spent waiting.
NoRedisNoOp ==
    ~redis =>
        /\ now = 0
        /\ \A t \in Tasks :
              /\ \A i \in 1..Len(appended[t]) : appended[t][i].src = "other"
              /\ ppc[t] # "second"
              /\ ~fault[t]
              /\ fpc[t] \in {"idle", "done"}
              /\ fpc[t] = "done" => (result[t] = 0 /\ exit[t] = "noredis")

\* without a client two pushes, a finish and a fetch have all returned
NoRedisNoOpWitness ==
    /\ ~redis
    /\ Len(pushed["A"]) = 2
    /\ ppc["A"] = "done"
    /\ fpc["A"] = "done"

\* C6: fetch dispatches the entries of its key one by one in id order from
\* the first, none skipped and none twice; its cursor is the id of the
\* entry it dispatched last; and no dispatched entry is still in the log
\* when the next read is issued.
OrderedOnce ==
    \A t \in Tasks :
        /\ consumed[t] = [i \in 1..Len(consumed[t]) |-> i]
        /\ fpc[t] \in {"loop", "blocked"} => last_id[t] = Len(consumed[t])
        /\ \A i \in 1..Len(stream[t]) :
              \A j \in 1..Len(consumed[t]) : stream[t][i].id # consumed[t][j]

\* three entries dispatched and deleted, the next read issued, a fourth
\* entry in the log
OrderedOnceWitness ==
    /\ fpc["A"] = "blocked"
    /\ Len(consumed["A"]) = 3
    /\ Len(stream["A"]) = 1

\* C7 as stated: a fetch that ends neither by the deadline nor by a failed
\* log operation (nor for want of a client) ends at a quit, with the rc it
\* holds.
OnlyQuitEnds ==
    \A t \in Tasks :
        (fpc[t] = "done" /\ exit[t] \notin {"deadline", "error", "noredis"}) =>
            /\ consumed[t] # <<>>
            /\ Dispatched(t)[Len(consumed[t])].type = "action"
            /\ Dispatched(t)[Len(consumed[t])].content = QuitText
            /\ result[t] = LastRc(Dispatched(t))

\* C8 as stated: an rc entry that is no integer does not end the loop, so
\* fetch never returns with such an entry as the last one it dispatched.
MalformedRcSkipped ==
    \A t \in Tasks :
        (fpc[t] = "done" /\ consumed[t] # <<>>) =>
            LET e == Dispatched(t)[Len(consumed[t])]
            IN  ~(e.type = "rc" /\ ~ParseInt(e.content).ok)

\* C9: dispatching an entry whose type is none of stdout, rc, action
\* deletes it, leaves rc and the printed text as they were, and goes on
\* with the loop.
UnknownSkipped ==
    [][\A t \in Tasks :
          (/\ Len(consumed'[t]) = Len(consumed[t]) + 1
           /\ appended[t][consumed'[t][Len(consumed'[t])]].type
                 \notin {"stdout", "rc", "action"}) =>
              /\ fpc'[t] = "loop"
              /\ rc'[t] = rc[t]
              /\ out'[t] = out[t]
              /\ exit'[t] = exit[t]
              /\ \A i \in 1..Len(stream'[t]) :
                    stream'[t][i].id # consumed'[t][Len(consumed'[t])]
      ]_vars

\* an entry of unknown type was dispatched between a line and the rc, and
\* fetch went on to the quit
UnknownSkippedWitness ==
    /\ exit["A"] = "quit"
    /\ result["A"] = 2
    /\ out["A"] = <<"a">>
    /\ Len(consumed["A"]) = 4
    /\ appended["A"][2].type = "other"

\* C10: a step of fetch(t) leaves the log and the fetch of every other key
\* as they are, and what fetch(t) printed and holds as rc is what the
\* entries of its own key give; with a client, over a log without failures,
\* it returns the rc of its own producer and prints that producer's lines.
Isolated ==
    [][\A t \in Tasks :
          /\ fpc'[t] # fpc[t] =>
                \A u \in Tasks \ {t} :
                    /\ stream'[u] = stream[u]
                    /\ appended'[u] = appended[u]
                    /\ <<fpc'[u], rc'[u], last_id'[u], stoptime'[u]>>
                          = <<fpc[u], rc[u], last_id[u], stoptime[u]>>
                    /\ <<out'[u], result'[u], exit'[u], consumed'[u]>>
                          = <<out[u], result[u], exit[u], consumed[u]>>
          /\ \A i \in 1..Len(consumed'[t]) :
                consumed'[t][i] <= Len(appended'[t])
          /\ (redis /\ fpc'[t] = "done" /\ steady'[t]) =>
                /\ result'[t] = frc'[t]
                /\ out'[t] = Concat(pushed'[t])
      ]_vars

\* both fetches are waiting at once, each after dispatching entries of its
\* own key, one of them a line
IsolatedWitness ==
    /\ fpc["A"] = "blocked" /\ fpc["B"] = "blocked"
    /\ out["A"] # <<>>
    /\ consumed["B"] # <<>>
    /\ now > 0

\* C11: drained at quit. When only push and finish wrote to key t and
\* fetch(t) has returned by dispatching the quit, the log of t holds no
\* entry, and fetch dispatched every entry that was ever appended.
DrainedAtQuit ==
    \A t \in Tasks :
        (exit[t] = "quit" /\ OwnOnly(t)) =>
            /\ stream[t] = <<>>
            /\ Len(consumed[t]) = Len(appended[t])

\* two lines, the rc and the quit were appended and fetch returned by the
\* quit, having waited in between
DrainedAtQuitWitness ==
    /\ exit["A"] = "quit" /\ OwnOnly("A")
    /\ Len(appended["A"]) = 4
    /\ stream["A"] = <<>>
    /\ now > 0

\* C12: a failed append of push or finish is swallowed. The step leaves
\* the log as it was and the producer where a normal return leaves it: a
\* push can be followed by further calls, a finish is over; when the
\* failed append is the quit of finish, the rc entry of that finish was
\* appended and is not taken back, and finish has appended no quit.
ProducerSwallows ==
    [][\A t \in Tasks :
          /\ ppc'[t] # "raised"
          /\ (fault'[t] /\ ~fault[t] /\ fpc'[t] = fpc[t]) =>
                /\ stream' = stream
                /\ appended' = appended
                /\ ppc'[t] = IF pushed'[t] # pushed[t] THEN "run" ELSE "done"
                /\ ppc[t] = "second" =>
                      /\ \E i \in 1..Len(appended'[t]) :
                            /\ appended'[t][i].src = "finish"
                            /\ appended'[t][i].type = "rc"
                            /\ appended'[t][i].content = IntToStr(frc[t])
                      /\ \A i \in 1..Len(appended'[t]) :
                            ~(/\ appended'[t][i].src = "finish"
                              /\ appended'[t][i].type = "action")
      ]_vars

\* finish has returned after its rc was appended and its quit was not: the
\* rc entry is still in the log, with no quit, and no fetch has failed
ProducerSwallowsWitness ==
    /\ fault["A"] /\ exit["A"] \notin {"error"}
    /\ ppc["A"] = "done"
    /\ stream["A"] # <<>>
    /\ stream["A"][Len(stream["A"])].type = "rc"
    /\ stream["A"][Len(stream["A"])].src = "finish"
    /\ pushed["A"] # <<>>

\* the Python value a document stands for
RECURSIVE ValueOf(_)
ValueOf(d) ==
    IF d.k = "list" THEN PyList([i \in 1..Len(d.v) |-> ValueOf(d.v[i])])
    ELSE IF d.k = "members"
    THEN PyDict([i \in 1..Len(d.v) |-> <<d.v[i][1], ValueOf(d.v[i][2])>>])
    ELSE d

\* the default clause list as a document
DefaultDocument ==
    PyList(<<DocObject(<<
        <<StateText, PyStr(ActiveText)>>,
        <<TagText, PyList(<<PyStr(ManagedByMetalboxText)>>)>> >>)>>)

\* C13: filter fallback. get_nb_device_query_list_sonic raises nothing;
\* for an expression that is a JSON document written in full, with either
\* set of separators, it returns the value of that document, whatever its
\* shape; for an expression that is a document cut short or a document
\* with a character after its end it returns the list of the one clause
\* state active, tag managed-by-metalbox.
FilterFallback ==
    answer.fn = "query_list" =>
        /\ ~answer.raised
        /\ \A d \in Documents, sep \in Separators :
              filterExpr = JsonText(d, sep) => answer.val = ValueOf(d)
        /\ filterExpr \in CutTexts \cup LongTexts =>
              answer.val = ValueOf(DefaultDocument)

\* an expression that stops in the middle of a clause was answered with
\* the default clause
FilterFallbackWitness ==
    /\ answer.fn = "query_list"
    /\ filterExpr \in CutTexts
    /\ Len(filterExpr) > 10
    /\ answer.val = ValueOf(DefaultDocument)

\* the positions of the management-only interfaces that have an address
WithAddress ==
    {j \in 1..Len(inventory) :
        inventory[j].mgmt_only /\ inventory[j].addresses # <<>>}

\* r is addr with everything from its first slash on removed
CutAtSlash(addr, r) ==
    /\ Len(r) <= Len(addr)
    /\ r = SubSeq(addr, 1, Len(r))
    /\ \A i \in 1..Len(r) : r[i] # "/"
    /\ Len(r) < Len(addr) => addr[Len(r) + 1] = "/"

\* C14: oobIP first match. When no request fails, get_device_oob_ip
\* returns the first address of the first management-only interface, in
\* inventory order, that has an address, cut at its first slash, and it
\* has requested the addresses of the management-only interfaces up to
\* that one and of no later one; it returns None, without a request for
\* addresses, when there is no connection, and None when no
\* management-only interface has an address.
OobFirstMatch ==
    (answer.fn = "oob_ip" /\ failAt = 0) =>
        IF nb /\ WithAddress # {}
        THEN LET j == CHOOSE j \in WithAddress :
                          \A h \in WithAddress : j <= h
             IN  /\ answer.val.k = "str"
                 /\ CutAtSlash(inventory[j].addresses[1], answer.val.v)
                 /\ asked = SelectSeq([i \in 1..j |-> i],
                                      LAMBDA i : inventory[i].mgmt_only)
        ELSE /\ answer.val = PyNone
             /\ ~nb => asked = <<>>
             /\ ~answer.raised

\* the first management-only interface has no address, the second has
\* 1.5/24: the answer is 1.5 and both were asked for their addresses
OobFirstMatchWitness ==
    /\ answer.fn = "oob_ip" /\ failAt = 0 /\ nb
    /\ Len(inventory) = 2
    /\ inventory[1].mgmt_only /\ inventory[1].addresses = <<>>
    /\ inventory[2].mgmt_only /\ inventory[2].addresses = <<Prefixed>>
    /\ answer.val = PyStr(<<"1", ".", "5">>)
    /\ asked = <<1, 2>>

\* the VLANs some interface of the device refers to, untagged or tagged
Referenced ==
    UNION {({inventory[j].untagged_vlan} \ {0})
              \cup {inventory[j].tagged_vlans[h] :
                       h \in 1..Len(inventory[j].tagged_vlans)} :
           j \in 1..Len(inventory)}

\* C15: vlans is a deduplicated union. When no request fails,
\* get_device_vlans returns a list that holds exactly the VLANs that are
\* the untagged VLAN or among the tagged VLANs of some interface of the
\* device, each once, in whatever order; the list is empty for a device
\* without interfaces and when there is no connection.
VlansUnion ==
    (answer.fn = "vlans" /\ failAt = 0) =>
        /\ ~answer.raised
        /\ answer.val.k = "list"
        /\ LET vs == answer.val.v IN
           IF nb
           THEN /\ {vs[i] : i \in 1..Len(vs)} = Referenced
                /\ \A i, j \in 1..Len(vs) : vs[i] = vs[j] => i = j
           ELSE vs = <<>>
        /\ inventory = <<>> => answer.val.v = <<>>

\* VLAN 10 untagged and 20 tagged on one interface, 20 and 30 tagged on
\* the other: three VLANs are returned, 30 first
VlansUnionWitness ==
    /\ answer.fn = "vlans" /\ failAt = 0 /\ nb
    /\ Len(inventory) = 2
    /\ inventory[1].untagged_vlan = 10 /\ inventory[1].tagged_vlans = <<20>>
    /\ inventory[2].tagged_vlans = <<20, 30>>
    /\ Len(answer.val.v) = 3
    /\ answer.val.v[1] = 30

\* the larger of two numbers
Larger(a, b) == IF a >= b THEN a ELSE b

\* the positions of the interfaces named as loopbacks, and of the
\* management-only interfaces get_device_oob_ip gets to
Named == {j \in 1..Len(inventory) : inventory[j].name = "Loopback0"}
Scanned ==
    {j \in 1..Len(inventory) :
        /\ inventory[j].mgmt_only
        /\ \A h \in WithAddress : j <= h}

\* a request of the call that was made is the one that raises
Hit ==
    /\ nb
    /\ failAt >= 1
    /\ failAt <= (CASE answer.fn = "loopbacks" -> Larger(1, Cardinality(Named))
                   [] answer.fn = "vlans" -> Larger(1, Len(inventory))
                   [] answer.fn = "oob_ip" ->
                          Larger(1, 2 * Cardinality(Scanned))
                   [] OTHER -> 0)

\* C16: the resolver never raises. Whichever request to the inventory
\* raises, no call of get_device_loopbacks, get_device_oob_ip or
\* get_device_vlans lets an exception reach its caller; a call that met the
\* failure returns the empty list, None, and the empty list; and loopbacks
\* and vlans return nothing in between empty and complete.
NeverRaises ==
    answer.fn \in {"loopbacks", "oob_ip", "vlans"} =>
        /\ ~answer.raised
        /\ Hit => answer.val = IF answer.fn = "oob_ip" THEN PyNone
                                ELSE PyList(<<>>)
        /\ answer.fn = "loopbacks" =>
              \/ answer.val.v = <<>>
              \/ answer.val.v = SelectSeq(inventory,
                                          LAMBDA i : i.name = "Loopback0")
        /\ answer.fn = "vlans" =>
              {answer.val.v[i] : i \in 1..Len(answer.val.v)}
                  \in {{}, Referenced}

\* the listing of two interfaces with VLANs broke at the second one: the
\* answer is the empty list
NeverRaisesWitness ==
    /\ answer.fn = "vlans" /\ nb /\ failAt = 2
    /\ Len(inventory) = 2
    /\ inventory[1].untagged_vlan = 10
    /\ answer.val = PyList(<<>>)

\* the smaller of two numbers
Smaller(a, b) == IF a <= b THEN a ELSE b

\* C17: stray entries after early termination. A fetch that ends by the
\* deadline or by a log error leaves the log as it is, and while no fetch
\* of the key runs the entries in its log stay, those appended afterwards
\* too. A later fetch of the same key begins with cursor 0 and rc 0, and
\* dispatches the entries that were in the log when it began before any
\* other, oldest first.
StrayEntries ==
    [][\A t \in Tasks :
          /\ (fpc[t] # "done" /\ exit'[t] \in {"deadline", "error"}) =>
                stream'[t] = stream[t]
          /\ (fpc[t] = "done" /\ fpc'[t] = "done") =>
                /\ Len(stream'[t]) >= Len(stream[t])
                /\ SubSeq(stream'[t], 1, Len(stream[t])) = stream[t]
          /\ (again'[t] /\ ~again[t] /\ redis) =>
                /\ last_id'[t] = 0
                /\ rc'[t] = 0
                /\ stale'[t] = stream[t]
          /\ again'[t] =>
                \A i \in 1..Smaller(Len(consumed'[t]), Len(stale'[t])) :
                    consumed'[t][i] = stale'[t][i].id
      ]_vars

\* the first fetch ended by the deadline; the entries of the first task
\* run, finished with 2, were still in the log when the id was used again;
\* the second fetch printed the old line and returned 2 on the old quit,
\* while the second task run finished with -13
StrayEntriesWitness ==
    /\ again["A"] /\ exit["A"] = "quit"
    /\ Len(stale["A"]) = 3
    /\ prior["A"] = <<2>>
    /\ frc["A"] = -13 /\ ppc["A"] = "done"
    /\ result["A"] = 2
    /\ out["A"] # <<>>
    /\ ~fault["A"]

\* C18: fetch terminates. A fetch that runs has received an entry, or
\* begun, no longer than the timeout ago, and it returns in the end: the
\* producer and any other writer append finitely many entries, and once
\* they are dispatched a read comes back empty after the timeout, when the
\* deadline has passed.
FetchTerminates ==
    /\ [](\A t \in Tasks :
             fpc[t] \in {"loop", "blocked"} => now - mark[t] <= Timeout)
    /\ \A t \in Tasks : (fpc[t] \in {"loop", "blocked"}) ~> (fpc[t] = "done")

\* a fetch has dispatched two entries without a quit among them, the
\* second a while after the first, and returned by the deadline when no
\* more came
FetchTerminatesWitness ==
    /\ exit["A"] = "deadline"
    /\ Len(consumed["A"]) = 2
    /\ stream["A"] = <<>>
    /\ now = MaxTime

====
